---- MODULE Spec2Model ----
(***************************************************************************)
(* Model of the community-verification core of the news integrity DAO     *)
(* backend: the SQLite tables (users, events, metta_atoms), the in-memory  *)
(* MeTTa knowledge base with its named atom spaces, and the handlers of    *)
(* CommunityVerificationService, UserService and                           *)
(* NewsIntegrityKnowledgeBase that read and write them.                    *)
(*                                                                         *)
(* A stored weight is named by its decimal literal in tenths (2.0 -> 20,   *)
(* 0.5 -> 5); the sums and the ratio of get_consensus_status are computed  *)
(* in binary64 floating point as Python computes them.                     *)
(***************************************************************************)
EXTENDS Integers, Sequences, FiniteSets, Bags, TLC

VARIABLES
    trust_score,    \* users table: user id -> trust_score column
    events,         \* events table: event id -> [user_id, verification_status]
    metta_atoms,    \* metta_atoms table, rows of type community_verification, in insertion order
    spaces,         \* knowledge base: atom space name -> bag of atoms
    ret,            \* value returned by the last completed handler
    pc,             \* request slot -> position inside submit_verification
    loc,            \* request slot -> local variables of the running call
    verification_history, \* knowledge base: the results run_verification has stored
    calls,          \* number of requests counted against the model's bounds so far
    feedback_log    \* history: the verifier feedback applied, <<event, verifier, delta>> in order

vars == <<trust_score, events, metta_atoms, spaces, verification_history, ret,
          pc, loc, calls, feedback_log>>

----------------------------------------------------------------------------
(* Bounds of the model. *)

MaxSubmissions == 3
MaxRaceCalls == 4
MaxTrustUpdates == 2
MaxPanelSubmissions == 5

\* The user ids there are, in the order of the users table.
UserSeq == <<"u1", "u2", "u3", "u4", "u5", "u6", "u7">>
\* The rosters the model starts from: four users, or a reporter and a panel
\* of verifiers, which is one of every weight tier or three of two tiers.
UserIds == {"u1", "u2", "u3", "u4"}
PanelIds == {"u1", "u2", "u3", "u4", "u5", "u6"}
Panels == {{"u1", "u2", "u3", "u4", "u5"}, {"u3", "u4", "u6"}}
PanelReporter == "u7"
UnknownUser == "ux"
ConsensusCheckId == "consensus_check"
EventIds == {"e1"}
UnknownEvent == "ex"
Procs == {"p1", "p2"}
AdminDeltas == {-5, 5}
ConsensusScores == {5, 10}
MaxVerifierChoices == {0, 2, 5}
ConfidenceLevels == {5}

----------------------------------------------------------------------------
(* Program constants. *)

DefaultTrust == 50
RequiredConsensusTenths == 7
MinimumVerifications == 3
CorrectDelta == 3
IncorrectDelta == -2
MinScore == 0
MaxScore == 100

\* The trust scores the rosters start with.
PanelTrust == [u \in PanelIds \cup {PanelReporter} |->
                  CASE u = "u1" -> 95 [] u = "u2" -> 85 [] u = "u3" -> 75
                    [] u = "u4" -> 65 [] u = "u5" -> 55 [] u = "u6" -> 72
                    [] OTHER -> DefaultTrust]
InitTrust == [u \in UserIds |->
                 CASE u = "u1" -> 95 [] u = "u2" -> 85 [] u = "u3" -> 60 [] OTHER -> 40]

\* _initialize_atom_spaces: the five spaces the knowledge base creates,
\* besides the space &self every MeTTa program has.
AtomSpaces == {"event", "trust", "economic", "governance", "prediction"}
DefaultSpace == "self"
SpaceNames == AtomSpaces \cup {DefaultSpace}

----------------------------------------------------------------------------
(* Helpers. *)

Max2(a, b) == IF a >= b THEN a ELSE b
Min2(a, b) == IF a <= b THEN a ELSE b

\* Python floats are IEEE-754 binary64.  Every binary64 value v with
\* 0 <= v < 16 is a whole multiple of 2^-53; it is kept as the digits
\* <<d0, d1, d2>> of v * 2^53 in base 2^20, least significant first.
LimbBase == 2^20

FloatZero == <<0, 0, 0>>

\* Carries (or borrows) moved up so that the low digits are in 0..LimbBase-1.
LimbNorm(x) ==
    LET c0 == x[1] \div LimbBase
        y1 == x[2] + c0
        c1 == y1 \div LimbBase
    IN  <<x[1] % LimbBase, y1 % LimbBase, x[3] + c1>>

LimbAdd(a, b) == LimbNorm(<<a[1] + b[1], a[2] + b[2], a[3] + b[3]>>)
LimbSub(a, b) == LimbNorm(<<a[1] - b[1], a[2] - b[2], a[3] - b[3]>>)
LimbGe(a, b) ==
    \/ a[3] > b[3]
    \/ a[3] = b[3] /\ a[2] > b[2]
    \/ a[3] = b[3] /\ a[2] = b[2] /\ a[1] >= b[1]

\* Bits an exact sum has beyond the 53 of a binary64 significand
\* (the digit d2 starts at bit 40).
ExcessBits(x) ==
    IF x[3] >= 2^16 THEN 4
    ELSE IF x[3] >= 2^15 THEN 3
    ELSE IF x[3] >= 2^14 THEN 2
    ELSE IF x[3] >= 2^13 THEN 1
    ELSE 0

\* Round to nearest, ties to even, dropping the k lowest bits.
RoundNearestEven(x, k) ==
    LET low  == x[1] % 2^k
        half == 2^k \div 2
        odd  == (x[1] \div 2^k) % 2 = 1
        up   == k > 0 /\ (low > half \/ (low = half /\ odd))
    IN  LimbNorm(<<x[1] - low + (IF up THEN 2^k ELSE 0), x[2], x[3]>>)

\* a + b on floats
FloatAdd(a, b) ==
    LET exact == LimbAdd(a, b)
    IN  RoundNearestEven(exact, ExcessBits(exact))

\* The float of a weight literal of _get_verifier_weight, named by its tenths
\* (2.0, 1.5, 1.2, 1.0, 0.5); 1.2 is 0x1.3333333333333p+0.
WeightFloat(tenths) ==
    CASE tenths = 20 -> <<0, 0, 16384>>
      [] tenths = 15 -> <<0, 0, 12288>>
      [] tenths = 12 -> <<419430, 419430, 9830>>
      [] tenths = 10 -> <<0, 0, 8192>>
      [] tenths = 5  -> <<0, 0, 4096>>

\* sum(v.get('verifier_weight', 1.0) for v in verifications): the floats are
\* added one by one in list order, starting from 0.
RECURSIVE SumFrom(_, _)
SumFrom(acc, s) ==
    IF s = <<>> THEN acc
    ELSE SumFrom(FloatAdd(acc, WeightFloat(Head(s).verifier_weight)), Tail(s))

\* The same sum with every submission counted 1.0, whatever its weight.
SumWeight_Unweighted(s) ==
    SumFrom(FloatZero, [i \in 1..Len(s) |-> [verifier_weight |-> 10]])

SumWeight(s) == SumFrom(FloatZero, s)

\* A quotient of floats is kept as [m, e]: the 53-bit significand m (digits
\* as above, 2^52 <= m < 2^53) and the exponent e of value = m * 2^(-52-e);
\* zero is [FloatZero, 0].
RatioZero == [m |-> FloatZero, e |-> 0]

\* The smallest e >= 0 with p * 2^e >= t, and that p * 2^e.
RECURSIVE ShiftUp(_, _, _)
ShiftUp(p, t, e) ==
    IF LimbGe(p, t) THEN [n |-> p, e |-> e] ELSE ShiftUp(LimbAdd(p, p), t, e + 1)

\* Long division, one bit a step: s.r is the remainder, s.m the quotient
\* bits so far.
DivStep(s, t) ==
    LET r2 == LimbAdd(s.r, s.r)
        m2 == LimbAdd(s.m, s.m)
    IN  IF LimbGe(r2, t)
        THEN [r |-> LimbSub(r2, t), m |-> LimbAdd(m2, <<1, 0, 0>>)]
        ELSE [r |-> r2, m |-> m2]

DivStep4(s, t) == DivStep(DivStep(DivStep(DivStep(s, t), t), t), t)

\* 4 * steps bits of the quotient (the test of s.m has s evaluated at every
\* step rather than all at the end).
RECURSIVE DivBits(_, _, _)
DivBits(s, t, steps) ==
    IF steps = 0 \/ s.m = FloatZero THEN s
    ELSE DivBits(DivStep4(s, t), t, steps - 1)

\* p / t on floats, 0 <= p <= t, t > 0: correctly rounded (nearest, ties
\* to even)
FloatDiv(p, t) ==
    IF p = FloatZero THEN RatioZero ELSE
    LET s   == ShiftUp(p, t, 0)
        q   == DivBits([r |-> LimbSub(s.n, t), m |-> <<1, 0, 0>>], t, 13)
        r2  == LimbAdd(q.r, q.r)
        up  == IF r2 = t THEN q.m[1] % 2 = 1 ELSE LimbGe(r2, t)
        m   == IF up THEN LimbAdd(q.m, <<1, 0, 0>>) ELSE q.m
    IN  IF m = <<0, 0, 2^13>>
        THEN [m |-> <<0, 0, 2^12>>, e |-> s.e - 1]
        ELSE [m |-> m, e |-> s.e]

\* The float 0.7 is 0x1.6666666666666p-1.
RequiredConsensus == [m |-> <<419430, 419430, 5734>>, e |-> 1]

\* The comparison the other way round, a <= b.
RatioGe_Reversed(a, b) ==
    IF b.m = FloatZero THEN a.m = FloatZero
    ELSE IF a.m = FloatZero THEN TRUE
    ELSE b.e < a.e \/ (b.e = a.e /\ LimbGe(b.m, a.m))

\* a >= b on quotients in [0, 1]
RatioGe(a, b) ==
    IF a.m = FloatZero THEN b.m = FloatZero
    ELSE IF b.m = FloatZero THEN TRUE
    ELSE a.e < b.e \/ (a.e = b.e /\ LimbGe(a.m, b.m))

Positive(s) == SelectSeq(s, LAMBDA v : v.verification_result)

\* Total weight of the (verification e v result w) atoms of a bag, copies counted.
RECURSIVE BagWeight(_, _)
BagWeight(B, S) ==
    IF S = {} THEN 0
    ELSE LET a == CHOOSE x \in S : TRUE
         IN  a[5] * B[a] + BagWeight(B, S \ {a})

----------------------------------------------------------------------------
(* The knowledge base: atoms are tuples, an atom space is a bag of atoms. *)

\* add_to_atom_space: the atom is added when the space exists, and the call
\* returns False (after a warning) when it does not.
AddToAtomSpace(sp, space_name, atom) ==
    IF space_name \in AtomSpaces
    THEN [sp EXCEPT ![space_name] = @ (+) SetToBag({atom})]
    ELSE sp

\* query_atom_space: the matches of a pattern in a space, [] for a space
\* the knowledge base does not have.  The pattern (head key $x ...) is
\* given by its head symbol and its first argument.
QueryAtomSpace(sp, space_name, head, key) ==
    IF space_name \in AtomSpaces
    THEN {a \in BagToSet(sp[space_name]) : a[1] = head /\ a[2] = key}
    ELSE {}

VerificationAtoms(sp, e) ==
    QueryAtomSpace(sp, "trust", "verification", e)

----------------------------------------------------------------------------
(* Rules of the knowledge base that community_verify_event evaluates. *)

\* Trust a user needs before the community-verify rule calls them an
\* eligible verifier.
MinVerifierTrust == 50

\* The weighted consensus the community-verify rule derives from the
\* (verification e v result w) atoms of the trust space.
RuleConsensus(sp, e) ==
    LET all == VerificationAtoms(sp, e)
        pos == {a \in all : a[4]}
        B   == sp["trust"]
    IN  /\ BagCardinality([a \in all |-> B[a]]) >= MinimumVerifications
        /\ 10 * BagWeight(B, pos) >= RequiredConsensusTenths * BagWeight(B, all)

\* !(community-verify "event" "verifier"): what the result mentions.
CommunityVerifyRule(ts, evs, sp, e, v) ==
    IF e \in DOMAIN evs /\ v \in DOMAIN ts /\ ts[v] >= MinVerifierTrust
    THEN "eligible-verifier"
    ELSE IF e \in DOMAIN evs /\ v = ConsensusCheckId /\ RuleConsensus(sp, e)
    THEN "verified-event"
    ELSE "none"

\* _process_verification_result
ProcessVerificationResult(result_str) ==
    IF result_str = "eligible-verifier"
    THEN [success |-> TRUE, eligible |-> TRUE, verified |-> FALSE]
    ELSE IF result_str = "verified-event"
    THEN [success |-> TRUE, eligible |-> FALSE, verified |-> TRUE]
    ELSE [success |-> TRUE, eligible |-> FALSE, verified |-> FALSE]

\* MeTTaService.community_verify_event as the community service calls it
CommunityVerifyEvent(ts, evs, sp, e, v) ==
    ProcessVerificationResult(CommunityVerifyRule(ts, evs, sp, e, v))

----------------------------------------------------------------------------
(* Database access. *)

\* crud.update_user_trust_score(user_id, score): stores the score it is given
CrudUpdateUserTrustScore(ts, u, score) ==
    IF u \in DOMAIN ts THEN [ts EXCEPT ![u] = score] ELSE ts

\* crud.get_all_users(): the rows of the users table, in table order
CrudGetAllUsers(ts) == SelectSeq(UserSeq, LAMBDA u : u \in DOMAIN ts)

\* crud.get_atoms_by_event(event_id): the rows of the event, in table order
CrudGetAtomsByEvent(atoms, e) ==
    SelectSeq(atoms, LAMBDA r : r.event_id = e)

\* _get_event_verifications
GetEventVerifications(atoms, e) ==
    SelectSeq(CrudGetAtomsByEvent(atoms, e),
              LAMBDA r : r.atom_type = "community_verification")

----------------------------------------------------------------------------
(* CommunityVerificationService. *)

\* The tiers with their bars excluded.
TierWeight_Strict(t) ==
    IF t > 90 THEN 20
    ELSE IF t > 80 THEN 15
    ELSE IF t > 70 THEN 12
    ELSE IF t > 60 THEN 10
    ELSE 5

\* The trust tiers of _get_verifier_weight, in tenths.
TierWeight(t) ==
    IF t >= 90 THEN 20
    ELSE IF t >= 80 THEN 15
    ELSE IF t >= 70 THEN 12
    ELSE IF t >= 60 THEN 10
    ELSE 5

\* _get_verifier_weight: the verifier-weight query goes to the space
\* 'identity'; a match gives 1.0, no match the tier of the stored trust
\* score, an unknown user 1.0.
GetVerifierWeight(ts, sp, v) ==
    IF QueryAtomSpace(sp, "identity", "verifier-weight", v) # {}
    THEN 10
    ELSE IF v \in DOMAIN ts THEN TierWeight(ts[v]) ELSE 10

\* _create_verification_atoms followed by the adds to the space 'trust'
AddVerificationAtoms(sp, rec) ==
    LET s1 == AddToAtomSpace(sp, "trust",
                  <<"verification", rec.event_id, rec.verifier_id,
                    rec.verification_result, rec.verifier_weight>>)
        s2 == AddToAtomSpace(s1, "trust",
                  <<"verification-confidence", rec.event_id, rec.verifier_id,
                    rec.confidence_level>>)
    IN  AddToAtomSpace(s2, "trust",
                  <<"verification-timestamp", rec.event_id, rec.verifier_id>>)

\* _check_consensus
CheckConsensus(ts, evs, sp, atoms, e) ==
    LET consensus_result == CommunityVerifyEvent(ts, evs, sp, e, ConsensusCheckId)
        total == Len(GetEventVerifications(atoms, e))
        reached == total >= MinimumVerifications /\ consensus_result.verified
    IN  [consensus_reached |-> reached,
         result |-> IF reached THEN "verified" ELSE "pending",
         total_verifications |-> total]

\* The delta _update_verifier_trust_score picks.
VerifierDelta(verification_result, consensus_result) ==
    LET consensus_verified == consensus_result.result = "verified"
        was_correct == verification_result = consensus_verified
    IN  IF was_correct THEN CorrectDelta ELSE IncorrectDelta

\* _update_verifier_trust_score
UpdateVerifierTrustScore(ts, v, verification_result, consensus_result) ==
    IF consensus_result.consensus_reached
    THEN CrudUpdateUserTrustScore(ts, v,
             VerifierDelta(verification_result, consensus_result))
    ELSE ts

\* History of the calls of _update_verifier_trust_score that applied a delta.
LogFeedback(log, e, v, verification_result, consensus_result) ==
    IF consensus_result.consensus_reached
    THEN Append(log, <<e, v, VerifierDelta(verification_result, consensus_result)>>)
    ELSE log

\* consensus_ratio = positive_weight / total_weight if total_weight > 0 else 0
ConsensusRatio(positive_weight, total_weight) ==
    IF total_weight # FloatZero
    THEN FloatDiv(positive_weight, total_weight)
    ELSE RatioZero

\* consensus_reached = consensus_ratio >= 0.7 and total_verifications >= 3
ConsensusReached(consensus_ratio, total_verifications) ==
    /\ RatioGe(consensus_ratio, RequiredConsensus)
    /\ total_verifications >= MinimumVerifications

\* get_consensus_status: the metrics computed from the stored submissions
ConsensusStatus(atoms, e) ==
    LET verifications == GetEventVerifications(atoms, e)
        total == Len(verifications)
        positive == Len(Positive(verifications))
        total_weight == SumWeight(verifications)
        positive_weight == SumWeight(Positive(verifications))
        consensus_ratio == ConsensusRatio(positive_weight, total_weight)
        reached == ConsensusReached(consensus_ratio, total)
    IN  [op |-> "get_consensus_status", event_id |-> e,
         consensus_reached |-> reached,
         consensus_ratio |-> consensus_ratio,
         total_verifications |-> total,
         positive_verifications |-> positive,
         negative_verifications |-> total - positive,
         total_weight |-> total_weight,
         positive_weight |-> positive_weight,
         final_result |-> IF reached /\ RatioGe(consensus_ratio, RequiredConsensus)
                          THEN "verified" ELSE "pending"]

\* _get_regional_users: every user, whatever the region
GetRegionalUsers(ts) == CrudGetAllUsers(ts)

\* Insertion of x into a list sorted by descending score, after its equals
\* (list.sort(key=score, reverse=True) is stable).
RECURSIVE InsertByScore(_, _)
InsertByScore(x, s) ==
    IF s = <<>> THEN <<x>>
    ELSE IF Head(s)[2] >= x[2] THEN <<Head(s)>> \o InsertByScore(x, Tail(s))
    ELSE <<x>> \o s

RECURSIVE SortByScore(_)
SortByScore(s) ==
    IF s = <<>> THEN <<>>
    ELSE InsertByScore(s[Len(s)], SortByScore(SubSeq(s, 1, Len(s) - 1)))

\* _get_recent_verifications: always the empty list
RecentVerifications(v) == <<>>

\* verifier_scores[:max_count]
Take(s, n) ==
    IF n >= 0 THEN SubSeq(s, 1, Min2(n, Len(s)))
    ELSE SubSeq(s, 1, Max2(Len(s) + n, 0))

\* _select_best_verifiers
RECURSIVE VerifierScores(_, _)
VerifierScores(ts, eligible) ==
    IF eligible = <<>> THEN <<>>
    ELSE LET v == Head(eligible)
             availability_score == Max2(0, 10 - Len(RecentVerifications(v)))
         IN  (IF v \in DOMAIN ts
              THEN <<(<<v, ts[v] + availability_score>>)>> ELSE <<>>)
             \o VerifierScores(ts, Tail(eligible))

SelectBestVerifiers(ts, eligible, max_count) ==
    LET sorted == SortByScore(VerifierScores(ts, eligible))
    IN  [i \in 1..Len(Take(sorted, max_count)) |-> sorted[i][1]]

\* The loop of assign_verifiers over the roster: the reporter is skipped,
\* the others are kept when the rule calls them eligible.
SkipReporter_Never(evs, e, u) == FALSE

SkipReporter(evs, e, u) == u = evs[e].user_id

RECURSIVE EligibleVerifiers(_, _, _, _, _)
EligibleVerifiers(ts, evs, sp, e, users) ==
    IF users = <<>> THEN <<>>
    ELSE LET u == Head(users)
             rest == EligibleVerifiers(ts, evs, sp, e, Tail(users))
         IN  IF SkipReporter(evs, e, u) THEN rest
             ELSE IF CommunityVerifyEvent(ts, evs, sp, e, u).eligible
             THEN <<u>> \o rest
             ELSE rest

\* _create_verification_assignment, had the knowledge base a space of the
\* name it writes to.
CreateVerificationAssignment_Stored(sp, e, v) ==
    AddToAtomSpace(sp, "trust", <<"verification-assignment", v, e, "pending">>)

\* _create_verification_assignment: the space 'identity' is none of the
\* spaces of the knowledge base.
CreateVerificationAssignment(sp, e, v) ==
    AddToAtomSpace(sp, "identity", <<"verification-assignment", v, e, "pending">>)

RECURSIVE CreateAssignments(_, _, _)
CreateAssignments(sp, e, selected) ==
    IF selected = <<>> THEN sp
    ELSE CreateAssignments(CreateVerificationAssignment(sp, e, Head(selected)),
                           e, Tail(selected))

----------------------------------------------------------------------------
(* Handlers, each run from its call to its return. *)

Idle == \A p \in Procs : pc[p] = "idle"

\* The database calls of submit_verification whose exception nothing below
\* it catches: crud.create_atom and crud.get_event_by_id.
DbFaults == {"none", "create_atom", "get_event_by_id"}

\* When a submission arrives, with respect to the deadline of the
\* verifier's assignment (three days after it was made).
Arrivals == {"before_deadline", "after_deadline"}

\* An exception that leaves submit_verification.
SubmitVerificationExcept_Propagate(e, v, db_fault) ==
    [op |-> "submit_verification", event_id |-> e, verifier_id |-> v,
     db_fault |-> db_fault, raised |-> TRUE]

\* The except clause of submit_verification
SubmitVerificationExcept(e, v, db_fault) ==
    [op |-> "submit_verification", event_id |-> e, verifier_id |-> v,
     db_fault |-> db_fault, raised |-> FALSE,
     success |-> FALSE, error |-> db_fault]

\* CommunityVerificationService.submit_verification, with the database call
\* that raises during it, if one does, and with the time of its arrival,
\* which it does not look at.
SubmitVerificationWith(e, v, verified, confidence, db_fault, arrival) ==
    /\ Idle
    /\ arrival \in Arrivals
    /\ IF ~CommunityVerifyEvent(trust_score, events, spaces, e, v).eligible
       THEN /\ ret' = [op |-> "submit_verification", event_id |-> e,
                       verifier_id |-> v, db_fault |-> db_fault,
                       arrival |-> arrival,
                       raised |-> FALSE, success |-> FALSE,
                       error |-> "Verifier not eligible for this event"]
            /\ UNCHANGED <<trust_score, metta_atoms, spaces, feedback_log>>
       ELSE LET rec == [event_id |-> e, verifier_id |-> v,
                        atom_type |-> "community_verification",
                        verification_result |-> verified,
                        confidence_level |-> confidence,
                        verifier_weight |-> GetVerifierWeight(trust_score, spaces, v)]
                sp1 == AddVerificationAtoms(spaces, rec)
                atoms1 == Append(metta_atoms, rec)
                consensus_result == CheckConsensus(trust_score, events, sp1, atoms1, e)
                ts1 == UpdateVerifierTrustScore(trust_score, v, verified, consensus_result)
            IN  IF db_fault = "create_atom"
                THEN /\ spaces' = sp1
                     /\ ret' = ("arrival" :> arrival) @@ SubmitVerificationExcept(e, v, db_fault)
                     /\ UNCHANGED <<trust_score, metta_atoms, feedback_log>>
                ELSE IF db_fault = "get_event_by_id"
                THEN /\ spaces' = sp1
                     /\ metta_atoms' = atoms1
                     /\ ret' = ("arrival" :> arrival) @@ SubmitVerificationExcept(e, v, db_fault)
                     /\ UNCHANGED <<trust_score, feedback_log>>
                ELSE
                /\ spaces' = (IF consensus_result.consensus_reached
                              THEN AddToAtomSpace(sp1, "identity",
                                       <<"trust-score-update", v,
                                         VerifierDelta(verified, consensus_result)>>)
                              ELSE sp1)
                /\ metta_atoms' = atoms1
                /\ trust_score' = ts1
                /\ feedback_log' = LogFeedback(feedback_log, e, v, verified, consensus_result)
                /\ ret' = [op |-> "submit_verification", event_id |-> e,
                           verifier_id |-> v, db_fault |-> db_fault,
                           arrival |-> arrival,
                           raised |-> FALSE, success |-> TRUE,
                           consensus_reached |-> consensus_result.consensus_reached,
                           consensus_result |-> consensus_result.result,
                           total_verifications |-> consensus_result.total_verifications]
    /\ UNCHANGED <<events, verification_history, pc, loc, calls>>

\* submit_verification when the database answers every call
SubmitVerification(e, v, verified, confidence) ==
    SubmitVerificationWith(e, v, verified, confidence, "none", "before_deadline")

\* CommunityVerificationService.get_consensus_status
GetConsensusStatus(e) ==
    /\ Idle
    /\ ret' = ConsensusStatus(metta_atoms, e)
    /\ UNCHANGED <<trust_score, events, verification_history, metta_atoms, spaces, pc, loc, calls, feedback_log>>

\* route force_consensus_check: its crud parameter is None, so the status
\* update of a reached consensus raises and the request ends in a 500.
ForceConsensusCheck(e) ==
    /\ Idle
    /\ LET consensus == ConsensusStatus(metta_atoms, e)
       IN  ret' = IF consensus.consensus_reached
                  THEN [op |-> "force_consensus_check", event_id |-> e,
                        status_code |-> 500]
                  ELSE [op |-> "force_consensus_check", event_id |-> e,
                        status_code |-> 200,
                        message |-> "Consensus not yet reached"]
    /\ UNCHANGED <<trust_score, events, verification_history, metta_atoms, spaces, pc, loc, calls, feedback_log>>

\* CommunityVerificationService.assign_verifiers, the rows of the roster in
\* the order the database gives them.
AssignVerifiersWith(e, max_verifiers, users) ==
    /\ Idle
    /\ IF e \notin DOMAIN events
       THEN /\ ret' = [op |-> "assign_verifiers", event_id |-> e,
                       max_verifiers |-> max_verifiers, selected |-> <<>>]
            /\ UNCHANGED spaces
       ELSE LET eligible == EligibleVerifiers(trust_score, events, spaces, e, users)
                selected == SelectBestVerifiers(trust_score, eligible, max_verifiers)
            IN  /\ spaces' = CreateAssignments(spaces, e, selected)
                /\ ret' = [op |-> "assign_verifiers", event_id |-> e,
                           max_verifiers |-> max_verifiers, selected |-> selected]
    /\ UNCHANGED <<trust_score, events, verification_history, metta_atoms, pc, loc, calls, feedback_log>>

\* CommunityVerificationService.assign_verifiers
AssignVerifiers(e, max_verifiers) ==
    AssignVerifiersWith(e, max_verifiers, GetRegionalUsers(trust_score))

----------------------------------------------------------------------------
(* UserService. *)

\* max(0, min(100, score))
Clamp(score) == Max2(MinScore, Min2(MaxScore, score))

\* int(x) of a quotient n/d of integers, d > 0: truncation toward zero
TruncDiv(n, d) == IF n >= 0 THEN n \div d ELSE -((-n) \div d)

\* The delta of process_verification_feedback, consensus_score in tenths.
FeedbackDelta(event_verified, consensus_score) ==
    IF event_verified
    THEN TruncDiv(2 * consensus_score, 10)
    ELSE TruncDiv(-3 * consensus_score, 10)

\* UserService.update_trust_score
UpdateTrustScore(u, delta) ==
    /\ Idle
    /\ IF u \notin DOMAIN trust_score
       THEN /\ ret' = [op |-> "update_trust_score", user_id |-> u, success |-> FALSE]
            /\ UNCHANGED trust_score
       ELSE LET new_score == Clamp(trust_score[u] + delta)
            IN  /\ trust_score' = CrudUpdateUserTrustScore(trust_score, u, new_score)
                /\ ret' = [op |-> "update_trust_score", user_id |-> u, success |-> TRUE]
    /\ calls' = calls + 1
    /\ UNCHANGED <<events, verification_history, metta_atoms, spaces, pc, loc, feedback_log>>

\* UserService.process_verification_feedback
ProcessVerificationFeedback(u, event_verified, consensus_score) ==
    UpdateTrustScore(u, FeedbackDelta(event_verified, consensus_score))

----------------------------------------------------------------------------
(* The specification of the community path, handlers run one at a time. *)

NoReturn == [op |-> "none"]

Init ==
    /\ trust_score = InitTrust
    /\ events \in [EventIds -> [user_id : UserIds, verification_status : {"pending"}]]
    /\ metta_atoms = <<>>
    /\ spaces = [s \in SpaceNames |-> EmptyBag]
    /\ verification_history = <<>>
    /\ ret = NoReturn
    /\ pc = [p \in Procs |-> "idle"]
    /\ loc = [p \in Procs |-> NoReturn]
    /\ calls = 0
    /\ feedback_log = <<>>

Next ==
    \/ \E e \in EventIds \cup {UnknownEvent}, v \in UserIds \cup {UnknownUser},
          verified \in BOOLEAN, c \in ConfidenceLevels :
            /\ Len(metta_atoms) < MaxSubmissions
            /\ SubmitVerification(e, v, verified, c)
    \/ \E e \in EventIds : GetConsensusStatus(e)
    \/ \E e \in EventIds : ForceConsensusCheck(e)
    \/ \E e \in EventIds \cup {UnknownEvent}, n \in MaxVerifierChoices :
            AssignVerifiers(e, n)

Spec == Init /\ [][Next]_vars

----------------------------------------------------------------------------
(* The specification of the trust feedback: the three ways a trust score   *)
(* is written.                                                             *)

NextTrust ==
    \/ \E e \in EventIds, v \in UserIds, verified \in BOOLEAN, c \in ConfidenceLevels :
            /\ Len(metta_atoms) < MaxSubmissions
            /\ SubmitVerification(e, v, verified, c)
    \/ \E u \in UserIds \cup {UnknownUser}, delta \in AdminDeltas :
            /\ calls < MaxTrustUpdates
            /\ UpdateTrustScore(u, delta)
    \/ \E u \in UserIds, event_verified \in BOOLEAN, cs \in ConsensusScores :
            /\ calls < MaxTrustUpdates
            /\ ProcessVerificationFeedback(u, event_verified, cs)

InitTrustSpec ==
    /\ Init
    /\ events["e1"].user_id = "u4"

SpecTrust == InitTrustSpec /\ [][NextTrust]_vars

----------------------------------------------------------------------------
(* The specification of a panel: verifiers of every weight tier vote on    *)
(* the event of another user, each once, in any order, and the consensus   *)
(* is read between the votes.                                              *)

Submitted(atoms, e) ==
    {atoms[i].verifier_id : i \in {j \in 1..Len(atoms) : atoms[j].event_id = e}}

InitPanel ==
    /\ \E panel \in Panels :
           trust_score = [u \in panel \cup {PanelReporter} |-> PanelTrust[u]]
    /\ events = [e \in EventIds |-> [user_id |-> PanelReporter,
                                     verification_status |-> "pending"]]
    /\ metta_atoms = <<>>
    /\ spaces = [n \in SpaceNames |-> EmptyBag]
    /\ verification_history = <<>>
    /\ ret = NoReturn
    /\ pc = [p \in Procs |-> "idle"]
    /\ loc = [p \in Procs |-> NoReturn]
    /\ calls = 0
    /\ feedback_log = <<>>

NextPanel ==
    \/ \E e \in EventIds, v \in PanelIds, verified \in BOOLEAN, c \in ConfidenceLevels :
            /\ Len(metta_atoms) < MaxPanelSubmissions
            /\ v \in DOMAIN trust_score
            /\ v \notin Submitted(metta_atoms, e)
            /\ SubmitVerification(e, v, verified, c)
    \/ \E e \in EventIds : GetConsensusStatus(e)
    \/ \E e \in EventIds : ForceConsensusCheck(e)

SpecPanel == InitPanel /\ [][NextPanel]_vars

----------------------------------------------------------------------------
(* Properties. *)

Range(s) == {s[i] : i \in 1..Len(s)}

\* Number of calls that finalized event e: the feedback applied for it and
\* the calls that have seen its consensus reached and are about to apply it.
Finalizations(e) ==
    Cardinality({i \in 1..Len(feedback_log) : feedback_log[i][1] = e})
    + Cardinality({p \in Procs : pc[p] = "update_trust" /\ loc[p].event_id = e})

C4_ReporterNeverAssigned ==
    \A e \in DOMAIN events :
        /\ (ret.op = "assign_verifiers" /\ ret.event_id = e)
               => events[e].user_id \notin Range(ret.selected)
        /\ \A s \in AtomSpaces :
               <<"verification-assignment", events[e].user_id, e, "pending">>
                   \notin BagToSet(spaces[s])

\* assign_verifiers returned a panel for an event whose reporter the
\* eligibility rule would have accepted.
C4_Witness ==
    /\ ret.op = "assign_verifiers"
    /\ ret.event_id \in DOMAIN events
    /\ Len(ret.selected) >= 2
    /\ CommunityVerifyEvent(trust_score, events, spaces, ret.event_id,
                            events[ret.event_id].user_id).eligible

SubmissionsOf(e) == SelectSeq(metta_atoms, LAMBDA r : r.event_id = e)
Approving(s) == SelectSeq(s, LAMBDA r : r.verification_result)

RECURSIVE ExactWeight(_)
ExactWeight(s) ==
    IF s = <<>> THEN 0 ELSE Head(s).verifier_weight + ExactWeight(Tail(s))

\* The submissions listed by verifier, in the order of the users table,
\* instead of in their order of arrival.
RECURSIVE ByVerifier(_, _)
ByVerifier(users, atoms) ==
    IF users = <<>> THEN <<>>
    ELSE SelectSeq(atoms, LAMBDA r : r.verifier_id = Head(users))
             \o ByVerifier(Tail(users), atoms)

LimbScale(a, n) == LimbNorm(<<a[1] * n, a[2] * n, a[3] * n>>)
LimbNear(a, b, n) ==
    /\ LimbGe(LimbAdd(a, <<n, 0, 0>>), b)
    /\ LimbGe(LimbAdd(b, <<n, 0, 0>>), a)

\* The float quotient q is the fraction p/t (p <= t small integers) up to
\* the rounding of the float operations: |q.m * t - p * 2^(52+q.e)| <= 2^6 * t,
\* a relative error below 2^-46.
RatioIs(q, p, t) ==
    IF p = 0 THEN q = RatioZero
    ELSE LimbNear(LimbScale(q.m, t), <<0, 0, p * 2^(12 + q.e)>>, 2^6 * t)

Ballots(e) ==
    {<<r.verifier_weight, r.verification_result>> : r \in Range(SubmissionsOf(e))}

----------------------------------------------------------------------------
(* submit_verification as the event loop runs it: a coroutine gives up     *)
(* control at each database call, so the code between two database calls   *)
(* and each database call are separate steps, and calls made on behalf of  *)
(* different requests interleave.                                          *)

\* Entry up to the first database call: the eligibility check.
SubmitStart(p, e, v, verified, confidence) ==
    /\ pc[p] = "idle"
    /\ IF ~CommunityVerifyEvent(trust_score, events, spaces, e, v).eligible
       THEN /\ ret' = [op |-> "submit_verification", event_id |-> e,
                       verifier_id |-> v, success |-> FALSE]
            /\ UNCHANGED <<pc, loc, calls>>
       ELSE /\ pc' = [pc EXCEPT ![p] = "read_user"]
            /\ loc' = [loc EXCEPT ![p] = [event_id |-> e, verifier_id |-> v,
                                          verification_result |-> verified,
                                          confidence_level |-> confidence]]
            /\ calls' = calls + 1
            /\ UNCHANGED ret
    /\ UNCHANGED <<trust_score, events, verification_history, metta_atoms, spaces, feedback_log>>

\* _get_verifier_weight: crud.get_user_by_id reads the users table.
SubmitReadUser(p) ==
    /\ pc[p] = "read_user"
    /\ pc' = [pc EXCEPT ![p] = "add_atoms"]
    /\ loc' = [loc EXCEPT ![p] =
                 [event_id |-> @.event_id, verifier_id |-> @.verifier_id,
                  atom_type |-> "community_verification",
                  verification_result |-> @.verification_result,
                  confidence_level |-> @.confidence_level,
                  verifier_weight |-> GetVerifierWeight(trust_score, spaces, @.verifier_id)]]
    /\ UNCHANGED <<trust_score, events, verification_history, metta_atoms, spaces, ret, calls, feedback_log>>

\* The record is built and its atoms are added to the space 'trust'.
SubmitAddAtoms(p) ==
    /\ pc[p] = "add_atoms"
    /\ spaces' = AddVerificationAtoms(spaces, loc[p])
    /\ pc' = [pc EXCEPT ![p] = "create_atom"]
    /\ UNCHANGED <<trust_score, events, verification_history, metta_atoms, ret, loc, calls, feedback_log>>

\* crud.create_atom inserts the row.
SubmitCreateAtom(p) ==
    /\ pc[p] = "create_atom"
    /\ metta_atoms' = Append(metta_atoms, loc[p])
    /\ pc' = [pc EXCEPT ![p] = "rule"]
    /\ UNCHANGED <<trust_score, events, verification_history, spaces, ret, loc, calls, feedback_log>>

\* _check_consensus: the rule is evaluated, then the rows are asked for.
SubmitRule(p) ==
    /\ pc[p] = "rule"
    /\ loc' = [loc EXCEPT ![p] =
                 [event_id |-> @.event_id, verifier_id |-> @.verifier_id,
                  verification_result |-> @.verification_result,
                  verified |-> CommunityVerifyEvent(trust_score, events, spaces,
                                   @.event_id, ConsensusCheckId).verified]]
    /\ pc' = [pc EXCEPT ![p] = "get_atoms"]
    /\ UNCHANGED <<trust_score, events, verification_history, metta_atoms, spaces, ret, calls, feedback_log>>

\* crud.get_atoms_by_event reads the rows; _check_consensus returns, and
\* the call returns unless the consensus is reached.
SubmitGetAtoms(p) ==
    /\ pc[p] = "get_atoms"
    /\ LET total == Len(GetEventVerifications(metta_atoms, loc[p].event_id))
           reached == total >= MinimumVerifications /\ loc[p].verified
           consensus_result ==
               [consensus_reached |-> reached,
                result |-> IF reached THEN "verified" ELSE "pending",
                total_verifications |-> total]
       IN  IF reached
           THEN /\ pc' = [pc EXCEPT ![p] = "update_trust"]
                /\ loc' = [loc EXCEPT ![p] =
                             [event_id |-> @.event_id, verifier_id |-> @.verifier_id,
                              verification_result |-> @.verification_result,
                              consensus_result |-> consensus_result]]
                /\ UNCHANGED ret
           ELSE /\ pc' = [pc EXCEPT ![p] = "idle"]
                /\ loc' = [loc EXCEPT ![p] = NoReturn]
                /\ ret' = [op |-> "submit_verification", event_id |-> loc[p].event_id,
                           verifier_id |-> loc[p].verifier_id, success |-> TRUE,
                           consensus_reached |-> FALSE,
                           consensus_result |-> consensus_result.result,
                           total_verifications |-> total]
    /\ UNCHANGED <<trust_score, events, verification_history, metta_atoms, spaces, calls, feedback_log>>

\* _update_verifier_trust_score writes the users table; the call returns.
SubmitUpdateTrust(p) ==
    /\ pc[p] = "update_trust"
    /\ LET l == loc[p]
       IN  /\ trust_score' = UpdateVerifierTrustScore(trust_score, l.verifier_id,
                                  l.verification_result, l.consensus_result)
           /\ feedback_log' = LogFeedback(feedback_log, l.event_id, l.verifier_id,
                                  l.verification_result, l.consensus_result)
           /\ spaces' = AddToAtomSpace(spaces, "identity",
                            <<"trust-score-update", l.verifier_id,
                              VerifierDelta(l.verification_result, l.consensus_result)>>)
           /\ ret' = [op |-> "submit_verification", event_id |-> l.event_id,
                      verifier_id |-> l.verifier_id, success |-> TRUE,
                      consensus_reached |-> TRUE,
                      consensus_result |-> l.consensus_result.result,
                      total_verifications |-> l.consensus_result.total_verifications]
    /\ pc' = [pc EXCEPT ![p] = "idle"]
    /\ loc' = [loc EXCEPT ![p] = NoReturn]
    /\ UNCHANGED <<events, verification_history, metta_atoms, calls>>

NextRace ==
    \/ \E p \in Procs, e \in EventIds, v \in UserIds,
          verified \in BOOLEAN, c \in ConfidenceLevels :
            /\ calls < MaxRaceCalls
            /\ SubmitStart(p, e, v, verified, c)
    \/ \E p \in Procs : SubmitReadUser(p)
    \/ \E p \in Procs : SubmitAddAtoms(p)
    \/ \E p \in Procs : SubmitCreateAtom(p)
    \/ \E p \in Procs : SubmitRule(p)
    \/ \E p \in Procs : SubmitGetAtoms(p)
    \/ \E p \in Procs : SubmitUpdateTrust(p)

SpecRace == Init /\ [][NextRace]_vars

----------------------------------------------------------------------------
(* NewsIntegrityKnowledgeBase: the facts of users and news reports and the *)
(* automatic verification of a report.  A fact is a tuple of its symbols,  *)
(* the answer of a rule a list of atoms, each atom the list of its tokens. *)

\* add_atom: into the named space when the knowledge base has it, else
\* the atom is run as a program, which adds it to &self.
AddAtom(sp, atom, space) ==
    IF space # "default" /\ space \in AtomSpaces
    THEN [sp EXCEPT ![space] = @ (+) SetToBag({atom})]
    ELSE [sp EXCEPT ![DefaultSpace] = @ (+) SetToBag({atom})]

\* query_atoms: the matches of (head key $x) in the named space, or in
\* &self; one match for each copy of a fact.
QueryAtoms(sp, head, key, space) ==
    LET B == IF space # "default" /\ space \in AtomSpaces
             THEN sp[space] ELSE sp[DefaultSpace]
    IN  [a \in {x \in BagToSet(B) : x[1] = head /\ x[2] = key} |-> B[a]]

RECURSIVE AddAtoms(_, _)
AddAtoms(sp, adds) ==
    IF adds = <<>> THEN sp
    ELSE AddAtoms(AddAtom(sp, Head(adds)[1], Head(adds)[2]), Tail(adds))

\* create_user_atoms: the facts added for a user, each with its space
UserAtoms(user) ==
    <<  <<<<"user", user.id>>, "trust">>  >>
    \o (IF user.location_region
        THEN << <<<<"location", user.id, "region">>, "event">> >> ELSE <<>>)
    \o << <<<<"trust-score", user.id, user.trust_score>>, "trust">> >>
    \o (IF user.wallet_address
        THEN << <<<<"wallet-address", user.id, "wallet">>, "economic">> >> ELSE <<>>)

\* create_news_atoms: the facts added for a report, in order.  With a media
\* URL and no timestamp the media-timestamp fact raises, after the
\* evidence-link fact was added and before any later one.
NewsAtoms(news_report, user) ==
    LET id == news_report.id
    IN  << <<<<"news", id>>, "event">>,
           <<<<"reports", user.id, id>>, "event">>,
           <<<<"news-category", id, "category">>, "event">> >>
        \o (IF news_report.timestamp
            THEN << <<<<"timestamp", id, "time">>, "event">> >> ELSE <<>>)
        \o (IF news_report.coords
            THEN << <<<<"gps-coords", id, "coords">>, "event">> >> ELSE <<>>)
        \o (IF news_report.media_url
            THEN << <<<<"evidence-link", id, "url">>, "event">> >> ELSE <<>>)
        \o (IF news_report.media_url /\ news_report.timestamp
            THEN << <<<<"media-timestamp", id, "time">>, "event">> >> ELSE <<>>)
        \o (IF news_report.media_url /\ ~news_report.timestamp
            THEN <<>>
            ELSE (IF news_report.content
                  THEN << <<<<"content", id, "text">>, "event">> >> ELSE <<>>)
                 \o (IF news_report.source
                     THEN << <<<<"news-source", id, "source">>, "event">> >> ELSE <<>>)
                 \o << <<<<"integrity-level", id, "level">>, "event">> >>)

NewsAtomsRaise(news_report) == news_report.media_url /\ ~news_report.timestamp

\* The rules auto-verify and high-trust-verify of the knowledge base.
MinReporterTrust == 60
MinConfidence == 60
HighTrustBar == 80

ReporterScores(sp, user_id) ==
    {a[3] : a \in DOMAIN QueryAtoms(sp, "trust-score", user_id, "trust")}

\* !(auto-verify event user image_confidence desc_confidence)
AutoVerifyRule(sp, event_id, user_id, image_confidence, desc_confidence) ==
    LET Has(head) == DOMAIN QueryAtoms(sp, head, event_id, "event") # {}
        ok == /\ Has("evidence-link")
              /\ Has("gps-coords")
              /\ Has("timestamp")
              /\ \E score \in ReporterScores(sp, user_id) : score >= MinReporterTrust
              /\ image_confidence >= MinConfidence
              /\ desc_confidence >= MinConfidence
    IN  << <<IF ok THEN "True" ELSE "False">> >>

\* !(high-trust-verify event user)
HighTrustVerifyRule(sp, event_id, user_id) ==
    LET ok == \E score \in ReporterScores(sp, user_id) : score > HighTrustBar
    IN  << <<IF ok THEN "True" ELSE "False">> >>

\* str.lower() on the tokens the rules answer with
Lower(token) ==
    CASE token = "True" -> "true"
      [] token = "False" -> "false"
      [] OTHER -> token

\* The comparison without lower().
IsTrue_NoLower(raw_value) ==
    Len(raw_value) = 1 /\ raw_value[1] = "true"

\* str(raw_value).strip().lower() == "true"
IsTrue(raw_value) ==
    Len(raw_value) = 1 /\ Lower(raw_value[1]) = "true"

\* "high-trust-verify" in high_trust_str
MentionsHighTrust(raw_value) ==
    \E i \in 1..Len(raw_value) : Lower(raw_value[i]) = "high-trust-verify"

\* _get_verification_reasoning.  The trust-score query answers with the bare
\* scores, which are parsed into items without 'children', so the loop
\* over them never breaks and the score is reported unknown.
VerificationReasoning(sp, event_id, user_id) ==
    LET Has(head) == DOMAIN QueryAtoms(sp, head, event_id, "event") # {}
    IN  << "User trust score: unknown",
           IF Has("evidence-link") THEN "Photo evidence provided"
                                   ELSE "No photo evidence found",
           IF Has("gps-coords") THEN "GPS coordinates available"
                                ELSE "No GPS coordinates found",
           IF Has("timestamp") THEN "Event timestamp recorded"
                               ELSE "No timestamp found" >>

\* NewsIntegrityKnowledgeBase.create_user_atoms
CreateUserAtoms(user) ==
    /\ Idle
    /\ spaces' = AddAtoms(spaces, UserAtoms(user))
    /\ ret' = [op |-> "create_user_atoms", user_id |-> user.id,
               atoms |-> [i \in 1..Len(UserAtoms(user)) |-> UserAtoms(user)[i][1]]]
    /\ UNCHANGED <<trust_score, events, metta_atoms, verification_history,
                   pc, loc, calls, feedback_log>>

\* NewsIntegrityKnowledgeBase.create_news_atoms
CreateNewsAtoms(news_report, user) ==
    /\ Idle
    /\ spaces' = AddAtoms(spaces, NewsAtoms(news_report, user))
    /\ ret' = IF NewsAtomsRaise(news_report)
              THEN [op |-> "create_news_atoms", news_id |-> news_report.id,
                    raised |-> TRUE]
              ELSE [op |-> "create_news_atoms", news_id |-> news_report.id,
                    raised |-> FALSE,
                    atoms |-> [i \in 1..Len(NewsAtoms(news_report, user)) |->
                                  NewsAtoms(news_report, user)[i][1]]]
    /\ UNCHANGED <<trust_score, events, metta_atoms, verification_history,
                   pc, loc, calls, feedback_log>>

\* What a rule query can come to besides the answer of the rule: the run
\* raises, it yields no result, or the call is not reduced and comes back
\* as the expression it was.
Faults == {"none", "raises", "no_result", "unreduced"}

\* run_metta_function: the result list of metta.run, [] when it raises
RunMettaFunction(fault, answer, query) ==
    CASE fault = "none" -> answer
      [] fault = "raises" -> <<>>
      [] fault = "no_result" -> <<>>
      [] fault = "unreduced" -> <<query>>

\* NewsIntegrityKnowledgeBase.run_verification, with what became of its two
\* rule queries.  The return value is kept with the arguments of the call
\* and without its clock time.
RunVerificationWith(event_id, user_id, image_confidence, desc_confidence, auto_fault, high_fault) ==
    /\ Idle
    /\ LET auto_verify_result ==
               RunMettaFunction(auto_fault,
                   AutoVerifyRule(spaces, event_id, user_id,
                                  image_confidence, desc_confidence),
                   <<"auto-verify", event_id, user_id,
                     ToString(image_confidence), ToString(desc_confidence)>>)
       IN  IF auto_verify_result = <<>>
           THEN \* auto_verify_result[0] raises IndexError
                /\ ret' = [op |-> "run_verification", event_id |-> event_id,
                           user_id |-> user_id,
                           image_confidence |-> image_confidence,
                           desc_confidence |-> desc_confidence,
                           auto_fault |-> auto_fault, high_fault |-> high_fault,
                           verified |-> FALSE, error |-> TRUE,
                           reasoning |-> <<"Verification failed due to technical error">>]
                /\ UNCHANGED <<spaces, verification_history>>
           ELSE LET auto == IsTrue(auto_verify_result[1])
                    sp1 == IF auto
                           THEN AddAtom(spaces, <<"verified", event_id>>, "event")
                           ELSE spaces
                    high_trust_result ==
                        RunMettaFunction(high_fault,
                            HighTrustVerifyRule(sp1, event_id, user_id),
                            <<"high-trust-verify", event_id, user_id>>)
                    is_verified ==
                        IF auto THEN TRUE
                        ELSE IF high_trust_result # <<>>
                        THEN \/ IsTrue(high_trust_result[1])
                             \/ MentionsHighTrust(high_trust_result[1])
                        ELSE FALSE
                    verification_result ==
                        [verified |-> is_verified, event_id |-> event_id,
                         user_id |-> user_id,
                         reasoning |-> VerificationReasoning(sp1, event_id, user_id),
                         method |-> "auto-verify"]
                IN  /\ spaces' = sp1
                    /\ verification_history' =
                           Append(verification_history, verification_result)
                    /\ ret' = [op |-> "run_verification", event_id |-> event_id,
                               user_id |-> user_id,
                               image_confidence |-> image_confidence,
                               desc_confidence |-> desc_confidence,
                               auto_fault |-> auto_fault, high_fault |-> high_fault,
                               verified |-> is_verified, error |-> FALSE,
                               reasoning |-> verification_result.reasoning,
                               method |-> verification_result.method]
    /\ calls' = calls + 1
    /\ UNCHANGED <<trust_score, events, metta_atoms, pc, loc, feedback_log>>

\* run_verification when both rule queries are answered by their rules
RunVerification(event_id, user_id, image_confidence, desc_confidence) ==
    RunVerificationWith(event_id, user_id, image_confidence, desc_confidence,
                        "none", "none")

----------------------------------------------------------------------------
(* The specification of automatic verification: the facts of a reporter    *)
(* and of a report are created, and the report is verified, repeatedly.    *)

MaxVerifyCalls == 3
MaxFaultyCalls == 2
ReporterTrusts == {59, 60, 90}
ConfidenceInputs == {59, 60}

VerifyUsers ==
    [id : {"u1"}, trust_score : ReporterTrusts,
     location_region : {TRUE}, wallet_address : {FALSE}]
NewsReports ==
    [id : EventIds, timestamp : BOOLEAN, coords : BOOLEAN, media_url : BOOLEAN,
     content : {TRUE}, source : {FALSE}]

InitVerify ==
    /\ Init
    /\ events["e1"].user_id = "u1"

NextVerify ==
    \/ \E user \in VerifyUsers :
            /\ DOMAIN QueryAtoms(spaces, "user", user.id, "trust") = {}
            /\ CreateUserAtoms(user)
    \/ \E news_report \in NewsReports, user \in VerifyUsers :
            /\ DOMAIN QueryAtoms(spaces, "news", news_report.id, "event") = {}
            /\ user.trust_score \in ReporterScores(spaces, user.id)
            /\ CreateNewsAtoms(news_report, user)
    \/ \E e \in EventIds \cup {UnknownEvent}, u \in {"u1"},
          ic \in ConfidenceInputs, dc \in ConfidenceInputs :
            /\ calls < MaxVerifyCalls
            /\ RunVerification(e, u, ic, dc)

SpecVerify == InitVerify /\ [][NextVerify]_vars

\* The facts a returned verification was decided on (run_verification
\* adds no fact but verified).
HasFact(head, event_id) ==
    \E a \in BagToSet(spaces["event"]) : a[1] = head /\ a[2] = event_id
TrustFacts(user_id) ==
    {a[3] : a \in {x \in BagToSet(spaces["trust"]) :
                       x[1] = "trust-score" /\ x[2] = user_id}}
VerifiedCopies(sp, event_id) == CopiesIn(<<"verified", event_id>>, sp["event"])

C10_VerifyIdempotent ==
    [][(/\ ret.op = "run_verification"
        /\ ret.verified
        /\ VerifiedCopies(spaces, ret.event_id) >= 1
        /\ calls' = calls + 1
        /\ ret'.op = "run_verification"
        /\ ret'.event_id = ret.event_id
        /\ ret'.user_id = ret.user_id
        /\ ret'.image_confidence = ret.image_confidence
        /\ ret'.desc_confidence = ret.desc_confidence)
       => (/\ ret'.verified = ret.verified
           /\ VerifiedCopies(spaces', ret.event_id) = 1)]_vars

\* run_verification has verified the same event twice by auto-verify.
C10_Witness ==
    /\ ret.op = "run_verification"
    /\ ret.verified
    /\ Len(verification_history) >= 2
    /\ verification_history[Len(verification_history)]
           = verification_history[Len(verification_history) - 1]
    /\ VerifiedCopies(spaces, ret.event_id) >= 1

\* C11: whenever run_verification has returned verified = true, the event
\* space holds a (verified event) fact, and the query for it that the caller
\* makes next finds it.
C11_VerifiedFactObservable ==
    (ret.op = "run_verification" /\ ret.verified) =>
        DOMAIN QueryAtoms(spaces, "verified", ret.event_id, "event") # {}

----------------------------------------------------------------------------
(* The stored status of an event and the requests that set out to write    *)
(* it: re-verification, the status update, the forced consensus check.     *)

\* The statuses of the events the seeded table starts with; the create
\* route adds events as pending.
SeedStatuses == {"pending", "verified", "manual_review"}
StatusInputs == {"pending", "verified", "rejected"}

\* crud.update_event_verification: the UPDATE of the row of the event
CrudUpdateEventVerification(evs, e, status) ==
    IF e \in DOMAIN evs
    THEN [evs EXCEPT ![e] = [@ EXCEPT !.verification_status = status]]
    ELSE evs

\* The name resolved to the function of crud, as the import at the top of
\* routes/events.py has it.
EventsUpdateEventVerification_Crud(evs, e, status) ==
    [raised |-> FALSE, events |-> CrudUpdateEventVerification(evs, e, status)]

\* update_event_verification as the handlers of routes/events.py find the
\* name when they run: the PUT handler defined further down in the module
\* under the name imported from crud.  It awaits itself with its own
\* arguments, and the call ends in RecursionError with nothing written.
EventsUpdateEventVerification(evs, e, status) ==
    [raised |-> TRUE, events |-> evs]

\* route POST /{event_id}/verify.  The answers of the two AI checks are
\* inputs; every exception, the 404 of an unknown event included, is
\* turned into a 500.
VerifyEvent(e, consistent, image_verified) ==
    /\ Idle
    /\ IF e \notin DOMAIN events
       THEN /\ ret' = [op |-> "verify_event", event_id |-> e, status_code |-> 500]
            /\ UNCHANGED events
       ELSE LET new_status == IF consistent /\ image_verified
                              THEN "verified" ELSE "pending"
                update == EventsUpdateEventVerification(events, e, new_status)
            IN  /\ events' = update.events
                /\ ret' = [op |-> "verify_event", event_id |-> e,
                           new_status |-> new_status,
                           status_code |-> IF update.raised THEN 500 ELSE 200]
    /\ UNCHANGED <<trust_score, metta_atoms, spaces, verification_history,
                   pc, loc, calls, feedback_log>>

\* route PUT /{event_id}/verify
UpdateEventVerification(e, status) ==
    /\ Idle
    /\ LET update == EventsUpdateEventVerification(events, e, status)
       IN  /\ events' = update.events
           /\ ret' = [op |-> "update_event_verification", event_id |-> e,
                      status |-> status,
                      status_code |-> IF update.raised THEN 500 ELSE 200]
    /\ UNCHANGED <<trust_score, metta_atoms, spaces, verification_history,
                   pc, loc, calls, feedback_log>>

InitStatus ==
    /\ trust_score = InitTrust
    /\ events \in [EventIds -> [user_id : {"u4"}, verification_status : SeedStatuses]]
    /\ metta_atoms = <<>>
    /\ spaces = [s \in SpaceNames |-> EmptyBag]
    /\ verification_history = <<>>
    /\ ret = NoReturn
    /\ pc = [p \in Procs |-> "idle"]
    /\ loc = [p \in Procs |-> NoReturn]
    /\ calls = 0
    /\ feedback_log = <<>>

NextStatus ==
    \/ \E e \in EventIds, v \in UserIds, verified \in BOOLEAN, c \in ConfidenceLevels :
            /\ Len(metta_atoms) < MaxSubmissions
            /\ SubmitVerification(e, v, verified, c)
    \/ \E e \in EventIds : ForceConsensusCheck(e)
    \/ \E e \in EventIds \cup {UnknownEvent}, consistent \in BOOLEAN,
          image_verified \in BOOLEAN : VerifyEvent(e, consistent, image_verified)
    \/ \E e \in EventIds \cup {UnknownEvent}, status \in StatusInputs :
            UpdateEventVerification(e, status)

SpecStatus == InitStatus /\ [][NextStatus]_vars

----------------------------------------------------------------------------
(* The specification of automatic verification under failures of the rule  *)
(* queries.                                                                *)

NextVerifyFaults ==
    \/ \E user \in VerifyUsers :
            /\ DOMAIN QueryAtoms(spaces, "user", user.id, "trust") = {}
            /\ CreateUserAtoms(user)
    \/ \E news_report \in NewsReports, user \in VerifyUsers :
            /\ DOMAIN QueryAtoms(spaces, "news", news_report.id, "event") = {}
            /\ user.trust_score \in ReporterScores(spaces, user.id)
            /\ CreateNewsAtoms(news_report, user)
    \/ \E e \in EventIds, u \in {"u1"}, ic \in ConfidenceInputs,
          auto_fault \in Faults, high_fault \in Faults :
            /\ calls < MaxFaultyCalls
            /\ RunVerificationWith(e, u, ic, ic, auto_fault, high_fault)

SpecVerifyFaults == InitVerify /\ [][NextVerifyFaults]_vars

\* The rule was asked, and answered True.
AutoVerifyHolds(r) ==
    /\ r.auto_fault = "none"
    /\ IsTrue(AutoVerifyRule(spaces, r.event_id, r.user_id,
                             r.image_confidence, r.desc_confidence)[1])
HighTrustVerifyHolds(r) ==
    /\ r.high_fault = "none"
    /\ IsTrue(HighTrustVerifyRule(spaces, r.event_id, r.user_id)[1])

\* C13: when a rule query of run_verification has failed (it raised, gave
\* no result, or gave a result that is not a boolean), the call does not
\* return verified = true unless a rule that did answer answered True: a
\* failure never makes an event verified.
C13_FailureNeverVerifies ==
    (/\ ret.op = "run_verification"
     /\ (ret.auto_fault # "none" \/ ret.high_fault # "none")
     /\ ret.verified)
        => (AutoVerifyHolds(ret) \/ HighTrustVerifyHolds(ret))

\* run_verification has returned after its auto-verify query failed.
C13_Witness ==
    /\ ret.op = "run_verification"
    /\ ret.auto_fault = "raises"
    /\ ~ret.verified

----------------------------------------------------------------------------
(* The specification of submissions, the database failing some of them.    *)

MaxTrustAtoms == 9

NextSubmit ==
    \E e \in EventIds \cup {UnknownEvent}, v \in UserIds \cup {UnknownUser},
       verified \in BOOLEAN, c \in ConfidenceLevels, db_fault \in DbFaults :
        /\ Len(metta_atoms) < MaxSubmissions
        /\ BagCardinality(spaces["trust"]) < MaxTrustAtoms
        /\ SubmitVerificationWith(e, v, verified, c, db_fault, "before_deadline")

SpecSubmit == InitTrustSpec /\ [][NextSubmit]_vars

VoteOf(e, v) ==
    LET i == CHOOSE j \in 1..Len(metta_atoms) :
                 metta_atoms[j].event_id = e /\ metta_atoms[j].verifier_id = v
    IN  metta_atoms[i].verification_result

FeedbackCount(e, v) ==
    Cardinality({i \in 1..Len(feedback_log) :
                     feedback_log[i][1] = e /\ feedback_log[i][2] = v})

----------------------------------------------------------------------------
(* The specification of assignments and of submissions that arrive before  *)
(* or after the deadline of the assignment.                                *)

MaxDeadlineSubmissions == 4

NextDeadline ==
    \/ \E e \in EventIds, n \in MaxVerifierChoices : AssignVerifiers(e, n)
    \/ \E e \in EventIds, v \in UserIds, verified \in BOOLEAN,
          c \in ConfidenceLevels, arrival \in Arrivals :
            /\ Len(metta_atoms) < MaxDeadlineSubmissions
            /\ SubmitVerificationWith(e, v, verified, c, "none", arrival)

SpecDeadline == InitTrustSpec /\ [][NextDeadline]_vars

----------------------------------------------------------------------------
(* The specification of an event in community verification over time: the  *)
(* requests that write or would write its status, each handled whenever it *)
(* is pending, and submissions that arrive before or after the deadline.   *)

MaxExpirySubmissions == 3

SubmitExpiry ==
    \E e \in EventIds, v \in UserIds, verified \in BOOLEAN,
       c \in ConfidenceLevels, arrival \in Arrivals :
        /\ Len(metta_atoms) < MaxExpirySubmissions
        /\ SubmitVerificationWith(e, v, verified, c, "none", arrival)

ForceExpiry == \E e \in EventIds : ForceConsensusCheck(e)

VerifyExpiry ==
    \E e \in EventIds, consistent \in BOOLEAN, image_verified \in BOOLEAN :
        VerifyEvent(e, consistent, image_verified)

NextExpiry == SubmitExpiry \/ ForceExpiry \/ VerifyExpiry

\* Re-verification is handled whenever it is requested, and a forced
\* consensus check is handled again and again, which is more than weak
\* fairness of ForceExpiry asks for.  Submissions are up to the verifiers
\* and carry no fairness.
SpecExpiry ==
    /\ InitStatus
    /\ [][NextExpiry]_vars
    /\ WF_vars(VerifyExpiry)
    /\ []<><<ForceExpiry>>_vars

InCommunityVerification(e) ==
    /\ events[e].verification_status = "pending"
    /\ \E i \in 1..Len(metta_atoms) : metta_atoms[i].event_id = e

----------------------------------------------------------------------------
(* assign_verifiers as the event loop runs it.  The coroutine gives up     *)
(* control at its database calls: the read of the event, the reads of the  *)
(* roster and of the candidates, and the read of the verifier before each  *)
(* assignment is created.  Requests for the same event interleave there.   *)

MaxAssignCalls == 3

\* max_verifiers of the requests, the size of the panel asked for.
RequestedVerifiers == 2

\* Entry and crud.get_event_by_id; an unknown event raises ValueError, which
\* assign_verifiers catches and turns into the empty list.
AssignStart(p, e, max_verifiers) ==
    /\ pc[p] = "idle"
    /\ calls' = calls + 1
    /\ IF e \notin DOMAIN events
       THEN /\ ret' = [op |-> "assign_verifiers", event_id |-> e,
                       max_verifiers |-> max_verifiers, selected |-> <<>>]
            /\ UNCHANGED <<pc, loc>>
       ELSE /\ pc' = [pc EXCEPT ![p] = "select"]
            /\ loc' = [loc EXCEPT ![p] = [event_id |-> e,
                                          max_verifiers |-> max_verifiers]]
            /\ UNCHANGED ret
    /\ UNCHANGED <<trust_score, events, verification_history, metta_atoms,
                   spaces, feedback_log>>

\* The roster is read, the eligible users are kept and the best of them
\* selected.
AssignSelect(p) ==
    /\ pc[p] = "select"
    /\ LET e == loc[p].event_id
           eligible == EligibleVerifiers(trust_score, events, spaces, e,
                                         GetRegionalUsers(trust_score))
           selected == SelectBestVerifiers(trust_score, eligible,
                                           loc[p].max_verifiers)
       IN  loc' = [loc EXCEPT ![p] = [event_id |-> e,
                                      max_verifiers |-> @.max_verifiers,
                                      selected |-> selected,
                                      todo |-> selected]]
    /\ pc' = [pc EXCEPT ![p] = "create"]
    /\ UNCHANGED <<trust_score, events, verification_history, metta_atoms,
                   spaces, ret, calls, feedback_log>>

\* One round of the loop over the selected verifiers: the verifier is read
\* and the assignment created.
AssignCreate(p) ==
    /\ pc[p] = "create"
    /\ loc[p].todo # <<>>
    /\ spaces' = CreateVerificationAssignment(spaces, loc[p].event_id,
                                              Head(loc[p].todo))
    /\ loc' = [loc EXCEPT ![p] = [@ EXCEPT !.todo = Tail(@)]]
    /\ UNCHANGED <<trust_score, events, verification_history, metta_atoms,
                   ret, pc, calls, feedback_log>>

\* The loop is over and the selected verifiers are returned.
AssignReturn(p) ==
    /\ pc[p] = "create"
    /\ loc[p].todo = <<>>
    /\ ret' = [op |-> "assign_verifiers", event_id |-> loc[p].event_id,
               max_verifiers |-> loc[p].max_verifiers,
               selected |-> loc[p].selected]
    /\ pc' = [pc EXCEPT ![p] = "idle"]
    /\ loc' = [loc EXCEPT ![p] = NoReturn]
    /\ UNCHANGED <<trust_score, events, verification_history, metta_atoms,
                   spaces, calls, feedback_log>>

NextAssign ==
    \/ \E p \in Procs, e \in EventIds :
            /\ calls < MaxAssignCalls
            /\ AssignStart(p, e, RequestedVerifiers)
    \/ \E p \in Procs : AssignSelect(p)
    \/ \E p \in Procs : AssignCreate(p)
    \/ \E p \in Procs : AssignReturn(p)
    \/ \E e \in EventIds, v \in UserIds, verified \in BOOLEAN,
          c \in ConfidenceLevels :
            /\ Len(metta_atoms) < MaxSubmissions
            /\ SubmitVerification(e, v, verified, c)

SpecAssign == InitTrustSpec /\ [][NextAssign]_vars

\* The pending assignments of a verifier to an event that the knowledge
\* base holds, over all its spaces.
RECURSIVE CopiesInSpaces(_, _, _)
CopiesInSpaces(sp, names, atom) ==
    IF names = {} THEN 0
    ELSE LET n == CHOOSE x \in names : TRUE
         IN  CopiesIn(atom, sp[n]) + CopiesInSpaces(sp, names \ {n}, atom)

ActiveAssignments(e, v) ==
    CopiesInSpaces(spaces, SpaceNames, <<"verification-assignment", v, e, "pending">>)

AssignmentHolders(e) == {v \in UserIds : ActiveAssignments(e, v) >= 1}

Distinct(s) == \A i, j \in 1..Len(s) : s[i] = s[j] => i = j

----------------------------------------------------------------------------
(* The specification of the verifier weight: one user with any trust score *)
(* of the range, and the weight asked for that user and for an id that has *)
(* no user record.                                                         *)

WeightUser == "u1"

InitWeight ==
    /\ trust_score \in [{WeightUser} -> MinScore..MaxScore]
    /\ events = [e \in EventIds |-> [user_id |-> "u4",
                                     verification_status |-> "pending"]]
    /\ metta_atoms = <<>>
    /\ spaces = [n \in SpaceNames |-> EmptyBag]
    /\ verification_history = <<>>
    /\ ret = NoReturn
    /\ pc = [p \in Procs |-> "idle"]
    /\ loc = [p \in Procs |-> NoReturn]
    /\ calls = 0
    /\ feedback_log = <<>>

\* _get_verifier_weight, called on its own
VerifierWeightCall(v) ==
    /\ Idle
    /\ ret' = [op |-> "get_verifier_weight", verifier_id |-> v,
               weight |-> GetVerifierWeight(trust_score, spaces, v)]
    /\ UNCHANGED <<trust_score, events, verification_history, metta_atoms,
                   spaces, pc, loc, calls, feedback_log>>

NextWeight == \E v \in {WeightUser, UnknownUser} : VerifierWeightCall(v)

SpecWeight == InitWeight /\ [][NextWeight]_vars

\* C21: for a verifier with a user record and a trust score t of 0..100 the
\* weight is 2.0 from 90 up, 1.5 from 80 to below 90, 1.2 from 70 to below
\* 80, 1.0 from 60 to below 70 and 0.5 below 60 (weights in tenths).
C21_WeightTiers ==
    (ret.op = "get_verifier_weight" /\ ret.verifier_id \in DOMAIN trust_score) =>
        LET t == trust_score[ret.verifier_id]
        IN  /\ t >= 90 => ret.weight = 20
            /\ (80 <= t /\ t < 90) => ret.weight = 15
            /\ (70 <= t /\ t < 80) => ret.weight = 12
            /\ (60 <= t /\ t < 70) => ret.weight = 10
            /\ t < 60 => ret.weight = 5

\* The weight of a verifier whose trust score is on the bar of the second
\* tier.
C21_Witness ==
    /\ ret.op = "get_verifier_weight"
    /\ ret.verifier_id = WeightUser
    /\ trust_score[WeightUser] = 80
    /\ ret.weight = 15

----------------------------------------------------------------------------
(* The specification of the reporter's feedback: process_verification_-    *)
(* feedback for every consensus score of 0.0, 0.1, ... 1.0, in tenths.     *)

MaxFeedbackCalls == 3

ConsensusTenths == 0..10

NextFeedback ==
    \E u \in UserIds, event_verified \in BOOLEAN, cs \in ConsensusTenths :
        /\ calls < MaxFeedbackCalls
        /\ ProcessVerificationFeedback(u, event_verified, cs)

SpecFeedback == InitTrustSpec /\ [][NextFeedback]_vars

\* round(n / 10) for n >= 0; of the products 2r and 3r of a ratio r in
\* tenths only 1.5 is a tie, and it goes to 2 whichever way ties go.
RoundTenths(n) == (n + 5) \div 10

\* The delta the reporter is due: +round(2r) when verified, -round(3r)
\* when rejected.
ReporterDelta(event_verified, cs) ==
    IF event_verified THEN RoundTenths(2 * cs) ELSE -RoundTenths(3 * cs)

\* C22: the feedback for a finalized event with consensus ratio r moves the
\* reporter's trust score by +round(2r) when the event is verified and by
\* -round(3r) when it is rejected, clamped to 0..100.
C22_ReporterDelta ==
    [][\A u \in UserIds, event_verified \in BOOLEAN, cs \in ConsensusTenths :
          ProcessVerificationFeedback(u, event_verified, cs) =>
              trust_score'[u] = Clamp(trust_score[u] + ReporterDelta(event_verified, cs))]_vars

\* The first feedback took one point from a reporter of trust 60, which is
\* what a rejection with a ratio of 0.5 does.
C22_Witness ==
    /\ calls = 1
    /\ ret.op = "update_trust_score"
    /\ ret.user_id = "u3"
    /\ ret.success
    /\ trust_score["u3"] = InitTrust["u3"] - 1

----------------------------------------------------------------------------
(* The trust history: the facts of the knowledge base that record a change *)
(* of a user's trust score.                                                *)

HistoryHeads == {"trust-score-update", "increase-trust", "decrease-trust"}

RECURSIVE BagCount(_, _)
BagCount(bag, atoms) ==
    IF atoms = {} THEN 0
    ELSE LET a == CHOOSE x \in atoms : TRUE
         IN  CopiesIn(a, bag) + BagCount(bag, atoms \ {a})

RECURSIVE HistoryInSpaces(_, _, _)
HistoryInSpaces(sp, names, u) ==
    IF names = {} THEN 0
    ELSE LET n == CHOOSE x \in names : TRUE
         IN  BagCount(sp[n], {a \in BagToSet(sp[n]) :
                                  a[1] \in HistoryHeads /\ a[2] = u})
             + HistoryInSpaces(sp, names \ {n}, u)

HistoryEntries(u) == HistoryInSpaces(spaces, SpaceNames, u)

\* The deltas the verifier feedback has applied to the score of u.
AppliedFeedback(u) ==
    Cardinality({i \in 1..Len(feedback_log) : feedback_log[i][2] = u})

\* C23: every delta applied to the trust score of a subject is recorded in
\* the trust history of the subject: the history holds as many entries as
\* the verifier feedback has applied deltas, and an adjustment that has
\* succeeded has left an entry.
C23_DeltasRecorded ==
    /\ \A u \in UserIds : HistoryEntries(u) = AppliedFeedback(u)
    /\ (ret.op = "update_trust_score" /\ ret.success) =>
           HistoryEntries(ret.user_id) >= 1

\* The submission that reached the consensus has changed the trust score of
\* its verifier.
C23_Witness ==
    /\ ret.op = "submit_verification"
    /\ ret.success
    /\ ret.consensus_reached
    /\ AppliedFeedback(ret.verifier_id) = 1
    /\ trust_score[ret.verifier_id] # InitTrust[ret.verifier_id]

----------------------------------------------------------------------------
(* The specification of the selection of a panel: users whose trust scores *)
(* may be equal, and a roster that the database gives in any order.        *)

SelectTrusts == {60, 70, 80}

\* The orders in which the rows of the users table can come.
Rosters ==
    {r \in [1..Cardinality(UserIds) -> UserIds] :
        \A i, j \in 1..Cardinality(UserIds) : r[i] = r[j] => i = j}

InitSelect ==
    /\ trust_score \in [UserIds -> SelectTrusts]
    /\ events = [e \in EventIds |-> [user_id |-> "u4",
                                     verification_status |-> "pending"]]
    /\ metta_atoms = <<>>
    /\ spaces = [n \in SpaceNames |-> EmptyBag]
    /\ verification_history = <<>>
    /\ ret = NoReturn
    /\ pc = [p \in Procs |-> "idle"]
    /\ loc = [p \in Procs |-> NoReturn]
    /\ calls = 0
    /\ feedback_log = <<>>

NextSelect ==
    \E e \in EventIds, n \in MaxVerifierChoices, users \in Rosters :
        AssignVerifiersWith(e, n, users)

SpecSelect == InitSelect /\ [][NextSelect]_vars

\* The place of a user id in the order of the ids.
IdIndex(u) == CHOOSE i \in 1..Len(UserSeq) : UserSeq[i] = u

\* The candidates of an event: the eligible users other than its reporter.
Candidates(e) ==
    {u \in DOMAIN trust_score :
        /\ u # events[e].user_id
        /\ trust_score[u] >= MinVerifierTrust}

\* trust_score + max(0, 10 - recent_assignment_count), nobody having recent
\* assignments.
SelectionScore(u) == trust_score[u] + 10

\* The candidates that come before u: a higher score, or the same score
\* and a smaller id.
Before(e, u) ==
    {w \in Candidates(e) :
        \/ SelectionScore(w) > SelectionScore(u)
        \/ SelectionScore(w) = SelectionScore(u) /\ IdIndex(w) < IdIndex(u)}

ExpectedPanel(e, n) ==
    [i \in 1..Min2(n, Cardinality(Candidates(e))) |->
        CHOOSE u \in Candidates(e) : Cardinality(Before(e, u)) = i - 1]

----------------------------------------------------------------------------
(* The specification of the spaces: facts are added to a space the         *)
(* knowledge base has, to the default space or under a name it does not    *)
(* have, and spaces are queried by name.                                   *)

MaxQueryFacts == 2

\* A space name the knowledge base never creates; the service uses it.
UnknownSpace == "identity"

QuerySpaces == {"event", "trust", "default", UnknownSpace}

QueryFacts == {<<"news", "e1">>, <<"verified", "e1">>, <<"user", "u1">>}

FactCount == BagCardinality(spaces["event"]) + BagCardinality(spaces["trust"])
             + BagCardinality(spaces[DefaultSpace])

\* NewsIntegrityKnowledgeBase.add_atom
AddAtomCall(atom, space) ==
    /\ Idle
    /\ spaces' = AddAtom(spaces, atom, space)
    /\ ret' = [op |-> "add_atom", space |-> space, raised |-> FALSE]
    /\ UNCHANGED <<trust_score, events, metta_atoms, verification_history,
                   pc, loc, calls, feedback_log>>

\* NewsIntegrityKnowledgeBase.query_atoms
QueryAtomsCall(head, key, space) ==
    /\ Idle
    /\ ret' = [op |-> "query_atoms", space |-> space, head |-> head, key |-> key,
               raised |-> FALSE,
               matches |-> DOMAIN QueryAtoms(spaces, head, key, space)]
    /\ UNCHANGED <<trust_score, events, metta_atoms, verification_history,
                   spaces, pc, loc, calls, feedback_log>>

\* NewsIntegrityKnowledgeBase.query_atom_space
QueryAtomSpaceCall(head, key, space) ==
    /\ Idle
    /\ ret' = [op |-> "query_atom_space", space |-> space, head |-> head,
               key |-> key, raised |-> FALSE,
               matches |-> QueryAtomSpace(spaces, space, head, key)]
    /\ UNCHANGED <<trust_score, events, metta_atoms, verification_history,
                   spaces, pc, loc, calls, feedback_log>>

NextQuery ==
    \/ \E atom \in QueryFacts, space \in QuerySpaces :
            /\ FactCount < MaxQueryFacts
            /\ AddAtomCall(atom, space)
    \/ \E atom \in QueryFacts, space \in QuerySpaces :
            QueryAtomsCall(atom[1], atom[2], space)
    \/ \E atom \in QueryFacts, space \in QuerySpaces :
            QueryAtomSpaceCall(atom[1], atom[2], space)

SpecQuery == InitVerify /\ [][NextQuery]_vars

\* C25: a query of a space that was never created returns an empty result
\* and no error, whatever facts the other spaces and the default space hold.
C25_UnknownSpaceEmpty ==
    (ret.op \in {"query_atoms", "query_atom_space"} /\ ret.space = UnknownSpace) =>
        /\ ~ret.raised
        /\ ret.matches = {}

\* query_atoms was asked for a fact in the space that was never created
\* while the default space held the fact.
C25_Witness ==
    /\ ret.op = "query_atoms"
    /\ ret.space = UnknownSpace
    /\ <<ret.head, ret.key>> \in BagToSet(spaces[DefaultSpace])
    /\ ret.matches # {}

----------------------------------------------------------------------------
\* A call of submit_verification returns in this step.
SubmitReturns ==
    \E p \in Procs : pc[p] \in {"get_atoms", "update_trust"} /\ pc'[p] = "idle"

----------------------------------------------------------------------------
\* get_verification_assignments: the events of the assignment facts of the
\* verifier that the query of the space 'identity' returns, those of them
\* that are in the events table.
GetVerificationAssignments(sp, evs, v) ==
    {a[3] : a \in QueryAtomSpace(sp, UnknownSpace, "verification-assignment", v)}
        \cap DOMAIN evs

----------------------------------------------------------------------------
(* The route that creates an event.  It hands the Event it has built to    *)
(* MeTTaService.create_atoms, which adds the facts of the user and then    *)
(* reads news_report.category, a field an Event does not have: the call    *)
(* raises, the route takes its except branch, and run_verification is not  *)
(* called.                                                                 *)

MaxCreatedEvents == 2

NewEventIds == {"e1", "e2", "e3"}

\* The fields of the Event dataclass, which is what the route passes where
\* create_news_atoms expects a report.
EventFields ==
    {"id", "user_id", "event_type", "description", "latitude", "longitude",
     "photo_path", "timestamp", "verification_status",
     "smart_contract_tx_hash", "payout_amount", "created_at"}

\* create_news_atoms begins with news_report.category: AttributeError on
\* an object without that field, before any fact of the report is added.
CreateNewsAtomsRaises(fields) == "category" \notin fields

\* The status the route derives from raw_verification.
CreateEventStatus_Verified(raw_verification) == "verified"

CreateEventStatus(raw_verification) ==
    IF raw_verification THEN "verified" ELSE "pending"

\* crud.create_event: the INSERT of the row
CrudCreateEvent(evs, e, user_id, status) ==
    [x \in DOMAIN evs \cup {e} |->
        IF x = e THEN [user_id |-> user_id, verification_status |-> status]
        ELSE evs[x]]

InitCreate ==
    /\ trust_score = InitTrust
    /\ events = [e \in {} |-> [user_id |-> "u1", verification_status |-> "pending"]]
    /\ metta_atoms = <<>>
    /\ spaces = [n \in SpaceNames |-> EmptyBag]
    /\ verification_history = <<>>
    /\ ret = NoReturn
    /\ pc = [p \in Procs |-> "idle"]
    /\ loc = [p \in Procs |-> NoReturn]
    /\ calls = 0
    /\ feedback_log = <<>>

\* route POST /events/
CreateEvent(e, user, image_confidence, desc_confidence) ==
    /\ Idle
    /\ e \notin DOMAIN events
    /\ CreateNewsAtomsRaises(EventFields)
    /\ LET \* create_atoms has raised: the except branch of the route
           metta_verification_result == [verified |-> FALSE, error |-> TRUE]
           verification_status ==
               CreateEventStatus(metta_verification_result.verified)
       IN  /\ spaces' = AddAtoms(spaces, UserAtoms(user))
           /\ events' = CrudCreateEvent(events, e, user.id, verification_status)
           /\ ret' = [op |-> "create_event", event_id |-> e, user_id |-> user.id,
                      image_confidence |-> image_confidence,
                      desc_confidence |-> desc_confidence,
                      run_verification_called |-> FALSE,
                      metta_verification |-> metta_verification_result,
                      status |-> verification_status]
    /\ UNCHANGED <<trust_score, metta_atoms, verification_history, pc, loc,
                   calls, feedback_log>>

NextCreate ==
    \E e \in NewEventIds, user \in VerifyUsers,
       ic \in ConfidenceInputs, dc \in ConfidenceInputs :
        /\ Cardinality(DOMAIN events) < MaxCreatedEvents
        /\ CreateEvent(e, user, ic, dc)

SpecCreate == InitCreate /\ [][NextCreate]_vars

----------------------------------------------------------------------------
(* The specification of the reporter's trust over time: the facts of the   *)
(* reporter are created from the stored user, the stored score is         *)
(* updated, and reports of the reporter are verified.                      *)

MaxCurrentCalls == 3
MaxUserAtomCalls == 2
MaxTrustNotes == 1
CurrentReporter == "u3"

\* UserService._create_user_metta_atoms: the facts of the user as stored
StoredUser(u) ==
    [id |-> u, trust_score |-> trust_score[u],
     location_region |-> TRUE, wallet_address |-> FALSE]

\* MeTTaService.update_trust_score
MettaUpdateTrustScore(u, delta) ==
    /\ Idle
    /\ LET trust_update ==
               IF delta > 0 THEN <<"increase-trust", u, delta>>
                            ELSE <<"decrease-trust", u, -delta>>
       IN  spaces' = AddAtom(spaces, trust_update, "trust")
    /\ ret' = [op |-> "metta_update_trust_score", user_id |-> u, delta |-> delta]
    /\ UNCHANGED <<trust_score, events, metta_atoms, verification_history,
                   pc, loc, calls, feedback_log>>

\* The number of facts (head key ...) a space holds, with their copies.
FactCopies(sp, space, head, key) ==
    LET Q == QueryAtoms(sp, head, key, space)
    IN  BagCardinality(Q)

TrustNotes(sp, u) ==
    {a \in BagToSet(sp["trust"]) :
        a[1] \in {"increase-trust", "decrease-trust"} /\ a[2] = u}

InitCurrent ==
    /\ Init
    /\ events["e1"].user_id = CurrentReporter

NextCurrent ==
    \/ /\ FactCopies(spaces, "trust", "trust-score", CurrentReporter) < MaxUserAtomCalls
       /\ CreateUserAtoms(StoredUser(CurrentReporter))
    \/ \E news_report \in NewsReports :
            /\ DOMAIN QueryAtoms(spaces, "news", news_report.id, "event") = {}
            /\ CreateNewsAtoms(news_report, StoredUser(CurrentReporter))
    \/ \E delta \in AdminDeltas :
            /\ calls < MaxCurrentCalls
            /\ UpdateTrustScore(CurrentReporter, delta)
    \/ \E delta \in AdminDeltas :
            /\ Cardinality(TrustNotes(spaces, CurrentReporter)) < MaxTrustNotes
            /\ MettaUpdateTrustScore(CurrentReporter, delta)
    \/ \E ic \in ConfidenceInputs, dc \in ConfidenceInputs :
            /\ calls < MaxCurrentCalls
            /\ RunVerification("e1", CurrentReporter, ic, dc)

SpecCurrent == InitCurrent /\ [][NextCurrent]_vars

\* C29: a run_verification for a report of a reporter whose stored trust
\* score is below 60 does not verify the report, whatever trust-score
\* facts were inserted for the reporter earlier.
C29_CurrentTrustUsed ==
    (/\ ret.op = "run_verification"
     /\ trust_score[ret.user_id] < MinReporterTrust)
        => ~ret.verified

\* A run_verification has answered for the reporter when the stored score
\* was 55 and a trust-score fact of 60 had been inserted before.
C29_Witness ==
    /\ ret.op = "run_verification"
    /\ ret.user_id = CurrentReporter
    /\ trust_score[CurrentReporter] = 55
    /\ 60 \in ReporterScores(spaces, CurrentReporter)
    /\ ret.image_confidence = 60
    /\ ret.desc_confidence = 60
    /\ HasFact("evidence-link", "e1")
    /\ HasFact("gps-coords", "e1")
    /\ HasFact("timestamp", "e1")

----------------------------------------------------------------------------
(* What a failed submission leaves behind. *)

\* The facts _create_verification_atoms makes for a submission
VerificationHeads ==
    {"verification", "verification-confidence", "verification-timestamp"}

\* The number of verification facts the spaces hold for (e, v)
VerificationFacts(sp, e, v) ==
    LET Count(B) ==
            LET S == {a \in BagToSet(B) :
                         a[1] \in VerificationHeads /\ a[2] = e /\ a[3] = v}
            IN  BagCardinality([a \in S |-> B[a]])
    IN  [n \in SpaceNames |-> Count(sp[n])]

====
